---- MODULE Spec2Model ----
(***************************************************************************)
(* ApiRace (src/src/locales.ts): a sequential fallback over HTTP providers. *)
(* The model keeps the providers' priorities, the coordinator's options,    *)
(* the control state of run() and one record per attempt of #request: its   *)
(* transport call, its timer and its AbortController. Timers and transport  *)
(* calls outlive the attempt that created them, as in the code, which never *)
(* clears a timer. A step is what runs between two suspension points:       *)
(* run() up to the first transport call, and each settlement of a transport *)
(* call, timer or body read with everything #request and #run do on it.     *)
(* One run() is in progress at a time.                                      *)
(*                                                                          *)
(* Spec          one run() of a fresh coordinator, with timers              *)
(* SpecPriority  repeated runs without timers, priorities set and removed   *)
(* SpecOrder     the order run() computes, for every list and priority      *)
(* SpecRerun     repeated runs of a coordinator nothing else touches        *)
(* SpecParse     one run() over providers of every response type            *)
(* SpecResult    repeated runs over endpoints answering different statuses  *)
(* SpecConstruct the constructor, for arrays and mappings of providers      *)
(* SpecOptions   one run() for every value of the options that are not read *)
(* SpecTimers    repeated runs with timers of earlier attempts still due    *)
(* SpecLive      one run() in which timers fire and body reads complete     *)
(***************************************************************************)
EXTENDS Integers, Sequences, FiniteSets, TLC

\* ------------------------------------------------------------------ bounds
MaxProviders == 3
MaxPriority == 2
MaxRuns == 2
MaxPriorityChanges == 1

\* ------------------------------------------------------------ value spaces
\* `priority?: number`: <<>> is undefined, <<v>> the number v.
Undefined == <<>>

PriorityNumbers == -1 .. MaxPriority

PriorityValues == {Undefined} \cup {<<v>> : v \in PriorityNumbers}

\* The priorities drawn where whole runs are explored.
RunPriorityNumbers == {0, 1}

RunPriorityValues == {Undefined} \cup {<<v>> : v \in RunPriorityNumbers}

\* timeout, maxAttempts, maxRetry: 0 stands for unset.
OptionChoices == {0, 1}

\* HTTP statuses a transport response may carry.
Statuses == {200, 404}

\* timeoutPerAttempt: 0 stands for unset (both are falsy at lines 249, 274).
TimeoutChoices == {0, 1}

ResponseTypes ==
  { "application/json", "text/xml", "text/plain", "x-application/protobuf",
    "application/x-www-form-urlencoded", "application/octet-stream", "invalid" }

VARIABLES
  providers,          \* ApiRace._providers: the stored list, a sequence of provider ids
  priority,           \* ApiProvider._priority of each provider
  responseType,       \* ApiProvider._responseType of each provider
  responseStatus,     \* the status of the Response each provider's endpoint answers with
  props,              \* RaceInit.providers as passed to the constructor
  timeout,            \* RaceInit.timeout
  maxAttempts,        \* RaceInit.maxAttempts
  maxRetry,           \* RaceInit.maxRetry
  retryOnFail,        \* RaceInit.retryOnFail
  timeoutPerAttempt,  \* RaceInit.timeoutPerAttempt
  pc,                 \* run(): "idle", "running", "resolved", "rejected"; before
                      \* and after a failed construction: "new", "TypeError"
  order,              \* the array #orderProviders() returned to the running loop
  atts,               \* the attempts #request started, oldest first: those of the
                      \* current run() and the still live ones of earlier runs
  cur,                \* index in atts of the attempt run() is awaiting, 0 if none
  result,             \* the ProviderResponse run() resolved with, as
                      \* << provider, responseStatus >>, or <<>>
  runError,           \* the error run() rejected with, or "none"
  runs,               \* number of run() calls so far
  changes             \* number of priority assignments so far

\* What the caller supplied and no operation of the coordinator writes.
given == << responseStatus, props, timeout, maxAttempts, maxRetry >>

vars == << providers, priority, responseType, given, retryOnFail,
           timeoutPerAttempt, pc, order, atts, cur, result, runError, runs,
           changes >>

\* -------------------------------------------------------- #orderProviders
\* `!provider.priority`: undefined and 0 are both falsy.
NoPriority(pr) == pr = Undefined \/ pr[1] = 0

\* The index Array.prototype.splice(start, 0, item) inserts at: a negative
\* start counts from the end, and the start is clamped to 0 .. length.
SpliceIndex(len, start) ==
  IF start < 0
    THEN (IF len + start < 0 THEN 0 ELSE len + start)
    ELSE (IF start > len THEN len ELSE start)

\* A faulty splice: the priority taken as a position counted from 1.
SpliceOneBased(results, start, item) ==
  LET k == SpliceIndex(Len(results), start - 1)
  IN  SubSeq(results, 1, k) \o <<item>> \o SubSeq(results, k + 1, Len(results))

\* A faulty splice: a delete count of 1, so that the item takes the place of
\* the element at the index.
SpliceReplacing(results, start, item) ==
  LET k == SpliceIndex(Len(results), start)
  IN  SubSeq(results, 1, k) \o <<item>> \o SubSeq(results, k + 2, Len(results))

\* results.splice(start, 0, item).
Splice(results, start, item) ==
  LET k == SpliceIndex(Len(results), start)
  IN  SubSeq(results, 1, k) \o <<item>> \o SubSeq(results, k + 1, Len(results))

\* A faulty loop body: a provider without priority put in front.
PlaceProviderUnshift(results, p, prio) ==
  IF NoPriority(prio[p])
    THEN <<p>> \o results
    ELSE Splice(results, prio[p][1], p)

\* One iteration of the loop of #orderProviders.
PlaceProvider(results, p, prio) ==
  IF NoPriority(prio[p])
    THEN Append(results, p)
    ELSE Splice(results, prio[p][1], p)

\* The result array after the first k stored providers were processed.
RECURSIVE OrderUpTo(_, _, _)
OrderUpTo(provs, prio, k) ==
  IF k = 0 THEN <<>>
  ELSE PlaceProvider(OrderUpTo(provs, prio, k - 1), provs[k], prio)

OrderProviders(provs, prio) == OrderUpTo(provs, prio, Len(provs))

\* ------------------------------------------------------------- #request
\* A faulty #request: no timer is ever started.
NewAttemptNoTimer(p, r) ==
  [ prov      |-> p,
    run       |-> r,
    transport |-> "inflight",
    timer     |-> "none",
    signal    |-> IF timeoutPerAttempt # 0 THEN "fresh" ELSE "none",
    phase     |-> "transport",
    race      |-> "pending",
    bodyRead  |-> "none",
    status    |-> 0,
    error     |-> "none" ]

\* What getPromise / getProxyPromise set up for one attempt: the transport
\* call is started, and only with a truthy timeoutPerAttempt an
\* AbortController and a timer are created for it.
NewAttempt(p, r) ==
  [ prov      |-> p,
    run       |-> r,
    transport |-> "inflight",     \* "inflight", "resolved", "rejected"
    timer     |-> IF timeoutPerAttempt # 0 THEN "pending" ELSE "none",
    signal    |-> IF timeoutPerAttempt # 0 THEN "fresh" ELSE "none",
    phase     |-> "transport",    \* "transport", "parsing", "ok", "failed"
    race      |-> "pending",      \* which side ended the transport phase
    bodyRead  |-> "none",         \* the body-reading method #parseResponse called
    status    |-> 0,              \* res.status, once the awaited call has resolved
    error     |-> "none" ]

\* A faulty switch: a default branch that reads the body as text.
BodyReaderLenient(t) ==
  CASE t = "application/json" -> "json"
    [] t = "application/x-www-form-urlencoded" -> "formData"
    [] t = "application/octet-stream" -> "none"
    [] t = "x-application/protobuf" -> "none"
    [] OTHER -> "text"

\* #parseResponse up to its first await: the body-reading method it calls,
\* or "none" when it throws before reading.
BodyReader(t) ==
  CASE t = "application/json" -> "json"
    [] t = "application/x-www-form-urlencoded" -> "formData"
    [] t = "text/plain" -> "text"
    [] t = "text/xml" -> "text"
    [] OTHER -> "none"

ParseThrows(t) ==
  CASE t = "application/octet-stream" -> "Octet stream not supported yet"
    [] t = "x-application/protobuf" -> "Protobuf not supported yet"
    [] OTHER -> "Invalid response type"

\* ----------------------------------------------------------------- #run
\* The attempts the current run() call has started so far.
RunAttempts == SelectSeq(atts, LAMBDA a : a.run = runs)

\* A faulty loop: the order computed again for every attempt.
NextProviderReordered ==
  OrderProviders(providers, priority)[Len(RunAttempts) + 1]

\* The provider the for-of loop of #run hands out next.
NextProvider == order[Len(RunAttempts) + 1]

HasNextProvider == Len(RunAttempts) < Len(order)

\* A faulty catch block: it continues whatever retryOnFail is.
AttemptFailedIgnoringFlag(a, e) ==
  IF HasNextProvider
    THEN /\ atts' = Append(a, NewAttempt(NextProvider, runs))
         /\ cur' = Len(a) + 1
         /\ UNCHANGED << pc, result, runError >>
    ELSE /\ atts' = a
         /\ cur' = 0
         /\ pc' = "rejected"
         /\ runError' = "No providers available"
         /\ UNCHANGED result

\* A faulty exhaustion: run() rejects with the error of the last attempt.
AttemptFailedLastError(a, e) ==
  IF retryOnFail /\ HasNextProvider
    THEN /\ atts' = Append(a, NewAttempt(NextProvider, runs))
         /\ cur' = Len(a) + 1
         /\ UNCHANGED << pc, result, runError >>
    ELSE /\ atts' = a
         /\ cur' = 0
         /\ pc' = "rejected"
         /\ runError' = e
         /\ UNCHANGED result

\* A faulty loop: maxRetry, when set, caps the retries of a run.
AttemptFailedCapped(a, e) ==
  IF retryOnFail
    THEN IF HasNextProvider /\ (maxRetry = 0 \/ Len(RunAttempts) <= maxRetry)
           THEN /\ atts' = Append(a, NewAttempt(NextProvider, runs))
                /\ cur' = Len(a) + 1
                /\ UNCHANGED << pc, result, runError >>
           ELSE /\ atts' = a
                /\ cur' = 0
                /\ pc' = "rejected"
                /\ runError' = "No providers available"
                /\ UNCHANGED result
    ELSE /\ atts' = a
         /\ cur' = 0
         /\ pc' = "rejected"
         /\ runError' = e
         /\ UNCHANGED result

\* The catch block of #run and what follows it, for the awaited attempt
\* having failed with error e; a is atts with that attempt updated.
AttemptFailed(a, e) ==
  IF retryOnFail
    THEN IF HasNextProvider
           THEN /\ atts' = Append(a, NewAttempt(NextProvider, runs))
                /\ cur' = Len(a) + 1
                /\ UNCHANGED << pc, result, runError >>
           ELSE /\ atts' = a
                /\ cur' = 0
                /\ pc' = "rejected"
                /\ runError' = "No providers available"
                /\ UNCHANGED result
    ELSE /\ atts' = a
         /\ cur' = 0
         /\ pc' = "rejected"
         /\ runError' = e
         /\ UNCHANGED result

\* An attempt of an earlier run() still matters while its timer is pending or
\* its transport call is in flight; the settled ones are garbage and are
\* dropped from atts when the next run() starts.
Live(a) == a.timer = "pending" \/ a.transport = "inflight"

LiveAttempts == SelectSeq(atts, Live)

\* A faulty run(): it clears the priorities it has used.
RunCallConsuming ==
  /\ runs' = runs + 1
  /\ order' = OrderProviders(providers, priority)
  /\ priority' = [p \in DOMAIN priority |-> Undefined]
  /\ result' = <<>>
  /\ IF order' = <<>>
       THEN /\ pc' = "rejected"
            /\ runError' = "No providers available"
            /\ cur' = 0
            /\ atts' = LiveAttempts
       ELSE /\ pc' = "running"
            /\ runError' = "none"
            /\ atts' = Append(LiveAttempts, NewAttempt(order'[1], runs'))
            /\ cur' = Len(LiveAttempts) + 1
  /\ UNCHANGED << providers, responseType, given, retryOnFail,
                  timeoutPerAttempt, changes >>

\* run(): orders the providers and starts the first attempt, or rejects at
\* once when there is no provider.
RunCall ==
  /\ runs' = runs + 1
  /\ order' = OrderProviders(providers, priority)
  /\ result' = <<>>
  /\ IF order' = <<>>
       THEN /\ pc' = "rejected"
            /\ runError' = "No providers available"
            /\ cur' = 0
            /\ atts' = LiveAttempts
       ELSE /\ pc' = "running"
            /\ runError' = "none"
            /\ atts' = Append(LiveAttempts, NewAttempt(order'[1], runs'))
            /\ cur' = Len(LiveAttempts) + 1
  /\ UNCHANGED << providers, priority, responseType, given, retryOnFail,
                  timeoutPerAttempt, changes >>

\* The first run() of a coordinator.
Run ==
  /\ pc = "idle"
  /\ RunCall

\* A further run() of a coordinator whose previous run() has settled.
Rerun ==
  /\ pc \in {"resolved", "rejected"}
  /\ runs < MaxRuns
  /\ RunCall

\* The transport call of attempt i resolves with a Response.
TransportResolve(i) ==
  /\ atts[i].transport = "inflight"
  /\ IF i = cur /\ atts[i].phase = "transport"
       THEN LET t == responseType[atts[i].prov]
            IN  IF BodyReader(t) # "none"
                  THEN /\ atts' = [atts EXCEPT ![i].transport = "resolved",
                                               ![i].status = responseStatus[atts[i].prov],
                                               ![i].race = "transport",
                                               ![i].phase = "parsing",
                                               ![i].bodyRead = BodyReader(t)]
                       /\ UNCHANGED << pc, cur, result, runError >>
                  ELSE AttemptFailed(
                         [atts EXCEPT ![i].transport = "resolved",
                                      ![i].status = responseStatus[atts[i].prov],
                                      ![i].race = "transport",
                                      ![i].phase = "failed",
                                      ![i].error = ParseThrows(t)],
                         ParseThrows(t))
       ELSE /\ atts' = [atts EXCEPT ![i].transport = "resolved"]
            /\ UNCHANGED << pc, cur, result, runError >>
  /\ UNCHANGED << providers, priority, responseType, given, retryOnFail,
                  timeoutPerAttempt, order, runs, changes >>

\* The transport call of attempt i rejects on its own.
TransportReject(i) ==
  /\ atts[i].transport = "inflight"
  /\ IF i = cur /\ atts[i].phase = "transport"
       THEN AttemptFailed(
              [atts EXCEPT ![i].transport = "rejected",
                           ![i].race = "transport",
                           ![i].phase = "failed",
                           ![i].error = "TransportError"],
              "TransportError")
       ELSE /\ atts' = [atts EXCEPT ![i].transport = "rejected"]
            /\ UNCHANGED << pc, cur, result, runError >>
  /\ UNCHANGED << providers, priority, responseType, given, retryOnFail,
                  timeoutPerAttempt, order, runs, changes >>

\* The error Promise.race rejects with when the timer callback runs while the
\* transport call is pending: the callback first aborts the signal and then
\* rejects the timer promise, so a transport call that rejects as soon as its
\* signal aborts settles first and its rejection is the one that wins.
TimeoutRaceError(reacts) ==
  IF reacts THEN "AbortError" ELSE "Request timeout"

\* A faulty timer callback: it does not call ac.abort().
AbortForgotten(a, reacts) == a

\* ac.abort() for the attempt record a: its signal is aborted, and a
\* transport call still in flight either rejects at once (reacts) or goes on.
Abort(a, reacts) ==
  [a EXCEPT !.signal = "aborted",
            !.transport = IF @ = "inflight" /\ reacts THEN "rejected" ELSE @]

\* A faulty timer callback: one controller shared by all attempts, so that
\* the callback of attempt i aborts every signal.
TimerFireShared(i) ==
  /\ atts[i].timer = "pending"
  /\ \A j \in 1 .. (i - 1) : atts[j].timer # "pending"
  /\ LET aborted == [k \in DOMAIN atts |->
                       IF k = i
                         THEN [atts[k] EXCEPT !.timer = "fired",
                                              !.signal = "aborted"]
                         ELSE [atts[k] EXCEPT !.signal =
                                 IF @ = "none" THEN @ ELSE "aborted"]]
     IN  IF i = cur /\ atts[i].phase = "transport"
           THEN AttemptFailed(
                  [aborted EXCEPT ![i].race = "timer",
                                  ![i].phase = "failed",
                                  ![i].error = "Request timeout"],
                  "Request timeout")
           ELSE /\ atts' = aborted
                /\ UNCHANGED << pc, cur, result, runError >>
  /\ UNCHANGED << providers, priority, responseType, given, retryOnFail,
                  timeoutPerAttempt, order, runs, changes >>

\* The setTimeout callback of attempt i runs. All timers of a coordinator
\* have the same delay, so they fire in the order they were created.
TimerFire(i) ==
  /\ atts[i].timer = "pending"
  /\ \A j \in 1 .. (i - 1) : atts[j].timer # "pending"
  /\ \E reacts \in BOOLEAN :
       LET inflight == atts[i].transport = "inflight"
           aborted  == [atts EXCEPT ![i] = Abort([@ EXCEPT !.timer = "fired"], reacts)]
       IN  /\ (~inflight => ~reacts)
           /\ IF i = cur /\ atts[i].phase = "transport"
                THEN AttemptFailed(
                       [aborted EXCEPT ![i].race = "timer",
                                       ![i].phase = "failed",
                                       ![i].error = TimeoutRaceError(reacts)],
                       TimeoutRaceError(reacts))
                ELSE /\ atts' = aborted
                     /\ UNCHANGED << pc, cur, result, runError >>
  /\ UNCHANGED << providers, priority, responseType, given, retryOnFail,
                  timeoutPerAttempt, order, runs, changes >>

\* A faulty loop: no break after a successful attempt.
ParseOkNoBreak ==
  /\ cur # 0
  /\ atts[cur].phase = "parsing"
  /\ result' = << atts[cur].prov, atts[cur].status >>
  /\ IF HasNextProvider
       THEN /\ atts' = Append([atts EXCEPT ![cur].phase = "ok"],
                              NewAttempt(NextProvider, runs))
            /\ cur' = Len(atts) + 1
            /\ UNCHANGED pc
       ELSE /\ atts' = [atts EXCEPT ![cur].phase = "ok"]
            /\ cur' = 0
            /\ pc' = "resolved"
  /\ UNCHANGED << providers, priority, responseType, given, retryOnFail,
                  timeoutPerAttempt, order, runError, runs, changes >>

\* A faulty result: the status of the first response of the run.
ParseOkStaleStatus ==
  /\ cur # 0
  /\ atts[cur].phase = "parsing"
  /\ atts' = [atts EXCEPT ![cur].phase = "ok"]
  /\ result' = << atts[cur].prov, RunAttempts[1].status >>
  /\ pc' = "resolved"
  /\ cur' = 0
  /\ UNCHANGED << providers, priority, responseType, given, retryOnFail,
                  timeoutPerAttempt, order, runError, runs, changes >>

\* The body read of the awaited attempt completes: #parseResponse returns the
\* ProviderResponse, #request returns it and #run breaks out of its loop.
ParseOk ==
  /\ cur # 0
  /\ atts[cur].phase = "parsing"
  /\ atts' = [atts EXCEPT ![cur].phase = "ok"]
  /\ result' = << atts[cur].prov, atts[cur].status >>
  /\ pc' = "resolved"
  /\ cur' = 0
  /\ UNCHANGED << providers, priority, responseType, given, retryOnFail,
                  timeoutPerAttempt, order, runError, runs, changes >>

\* The body read of the awaited attempt rejects.
ParseFail ==
  /\ cur # 0
  /\ atts[cur].phase = "parsing"
  /\ AttemptFailed([atts EXCEPT ![cur].phase = "failed",
                                ![cur].error = "ParseError"],
                   "ParseError")
  /\ UNCHANGED << providers, priority, responseType, given, retryOnFail,
                  timeoutPerAttempt, order, runs, changes >>

\* ------------------------------------------------------------ ApiProvider
\* `set priority(value)` with a number.
SetPriority(p, v) ==
  /\ changes < MaxPriorityChanges
  /\ priority' = [priority EXCEPT ![p] = <<v>>]
  /\ changes' = changes + 1
  /\ UNCHANGED << providers, responseType, given, retryOnFail, timeoutPerAttempt,
                  pc, order, atts, cur, result, runError, runs >>

\* removePriority().
RemovePriority(p) ==
  /\ changes < MaxPriorityChanges
  /\ priority' = [priority EXCEPT ![p] = Undefined]
  /\ changes' = changes + 1
  /\ UNCHANGED << providers, responseType, given, retryOnFail, timeoutPerAttempt,
                  pc, order, atts, cur, result, runError, runs >>

\* A faulty setter: a value that is not a number unsets the priority.
SetPriorityNonNumberClearing(p) ==
  /\ changes < MaxPriorityChanges
  /\ priority' = [priority EXCEPT ![p] = Undefined]
  /\ changes' = changes + 1
  /\ UNCHANGED << providers, responseType, given, retryOnFail, timeoutPerAttempt,
                  pc, order, atts, cur, result, runError, runs >>

\* `set priority(value)` with a value that is not a number: the early return.
SetPriorityNonNumber(p) ==
  /\ changes < MaxPriorityChanges
  /\ changes' = changes + 1
  /\ UNCHANGED << providers, priority, responseType, given, retryOnFail,
                  timeoutPerAttempt, pc, order, atts, cur, result, runError,
                  runs >>

\* ------------------------------------------------------ ApiRace constructor
\* An element of a providers array that is not an ApiProvider.
NotAProvider == 0

IsProvidersArray(p) == p.shape = "array"

\* `props.providers.every(item => item instanceof ApiProvider)`.
EveryIsProvider(items) == \A k \in DOMAIN items : items[k] # NotAProvider

\* The priorities after the loop of #shortProvidersList has assigned
\* `item.provider.priority = item.priority` for the first k values of the list.
RECURSIVE AssignPriorities(_, _, _)
AssignPriorities(prio, list, k) ==
  IF k = 0 THEN prio
  ELSE [AssignPriorities(prio, list, k - 1)
          EXCEPT ![list[k].provider] = list[k].priority]

\* A faulty normalization: the list is built, the priorities are not written.
ShortProvidersListKeeping(list) ==
  /\ providers' = [k \in DOMAIN list |-> list[k].provider]
  /\ UNCHANGED priority

\* #shortProvidersList: the providers of Object.values(list) in order, each
\* with its priority overwritten.
ShortProvidersList(list) ==
  /\ providers' = [k \in DOMAIN list |-> list[k].provider]
  /\ priority' = AssignPriorities(priority, list, Len(list))

\* `new ApiRace(props)`.
Construct ==
  /\ pc = "new"
  /\ IF ~IsProvidersArray(props)
       THEN /\ ShortProvidersList(props.items)
            /\ pc' = "idle"
       ELSE IF ~EveryIsProvider(props.items)
       THEN /\ pc' = "TypeError"
            /\ UNCHANGED << providers, priority >>
       ELSE /\ providers' = props.items
            /\ pc' = "idle"
            /\ UNCHANGED priority
  /\ UNCHANGED << responseType, given, retryOnFail, timeoutPerAttempt, order,
                  atts, cur, result, runError, runs, changes >>

\* ---------------------------------------------------------- specifications
ProviderIds(n) == 1 .. n

\* The state after `new ApiRace(props)`: n providers stored in the order
\* given, priorities from prios, nothing run yet.
Constructed(n, prios, types) ==
  /\ providers = [k \in 1 .. n |-> k]
  /\ props = [shape |-> "array", items |-> [k \in 1 .. n |-> k]]
  /\ responseStatus = [p \in ProviderIds(n) |-> 200]
  /\ timeout = 0
  /\ maxAttempts = 0
  /\ maxRetry = 0
  /\ priority \in [ProviderIds(n) -> prios]
  /\ responseType \in [ProviderIds(n) -> types]
  /\ pc = "idle"
  /\ order = <<>>
  /\ atts = <<>>
  /\ cur = 0
  /\ result = <<>>
  /\ runError = "none"
  /\ runs = 0
  /\ changes = 0

\* One run() of a fresh coordinator, with or without a per-attempt timeout,
\* followed until every timer and transport call it left behind is done.
Init ==
  /\ retryOnFail \in BOOLEAN
  /\ timeoutPerAttempt \in TimeoutChoices
  /\ \E n \in 0 .. MaxProviders :
       Constructed(n, {Undefined, <<1>>},
                   {"application/json", "application/octet-stream"})

Next ==
  \/ Run
  \/ \E i \in DOMAIN atts : TransportResolve(i)
  \/ \E i \in DOMAIN atts : TransportReject(i)
  \/ \E i \in DOMAIN atts : TimerFire(i)
  \/ ParseOk
  \/ ParseFail

Spec == Init /\ [][Next]_vars

\* Repeated runs of a coordinator without per-attempt timeout whose
\* providers' priorities are changed between and during the runs.
InitPriority ==
  /\ retryOnFail \in BOOLEAN
  /\ timeoutPerAttempt = 0
  /\ \E n \in 0 .. MaxProviders :
       Constructed(n, RunPriorityValues, {"application/json"})

NextPriority ==
  \/ Run
  \/ Rerun
  \/ \E i \in DOMAIN atts : TransportResolve(i)
  \/ \E i \in DOMAIN atts : TransportReject(i)
  \/ ParseOk
  \/ ParseFail
  \/ \E p \in DOMAIN priority : \E v \in RunPriorityNumbers : SetPriority(p, v)
  \/ \E p \in DOMAIN priority : SetPriorityNonNumber(p)
  \/ \E p \in DOMAIN priority : RemovePriority(p)

SpecPriority == InitPriority /\ [][NextPriority]_vars

\* Repeated runs of a coordinator that nothing else touches, without
\* per-attempt timeout.
InitRerun ==
  /\ retryOnFail \in BOOLEAN
  /\ timeoutPerAttempt = 0
  /\ \E n \in 0 .. MaxProviders :
       Constructed(n, RunPriorityValues,
                   {"application/json", "application/octet-stream"})

NextRerun ==
  \/ Run
  \/ Rerun
  \/ \E i \in DOMAIN atts : TransportResolve(i)
  \/ \E i \in DOMAIN atts : TransportReject(i)
  \/ ParseOk
  \/ ParseFail

SpecRerun == InitRerun /\ [][NextRerun]_vars

\* The state after construction with the given list, priorities, response
\* types, statuses and unread options.
ConstructedWith(n, prios, types, statuses, opts) ==
  /\ providers = [k \in 1 .. n |-> k]
  /\ props = [shape |-> "array", items |-> [k \in 1 .. n |-> k]]
  /\ priority \in [ProviderIds(n) -> prios]
  /\ responseType \in [ProviderIds(n) -> types]
  /\ responseStatus \in [ProviderIds(n) -> statuses]
  /\ timeout \in opts
  /\ maxAttempts \in opts
  /\ maxRetry \in opts
  /\ pc = "idle"
  /\ order = <<>>
  /\ atts = <<>>
  /\ cur = 0
  /\ result = <<>>
  /\ runError = "none"
  /\ runs = 0
  /\ changes = 0

\* One run() over providers of every declared response type.
InitParse ==
  /\ retryOnFail \in BOOLEAN
  /\ timeoutPerAttempt = 0
  /\ \E n \in 0 .. MaxProviders :
       ConstructedWith(n, {Undefined}, ResponseTypes, {200}, {0})

NextParse ==
  \/ Run
  \/ \E i \in DOMAIN atts : TransportResolve(i)
  \/ \E i \in DOMAIN atts : TransportReject(i)
  \/ ParseOk
  \/ ParseFail

SpecParse == InitParse /\ [][NextParse]_vars

\* Repeated runs over providers whose endpoints answer with different
\* statuses.
InitResult ==
  /\ retryOnFail \in BOOLEAN
  /\ timeoutPerAttempt = 0
  /\ \E n \in 0 .. MaxProviders :
       ConstructedWith(n, {Undefined, <<1>>},
                       {"application/json", "application/octet-stream"},
                       Statuses, {0})

NextResult ==
  \/ Run
  \/ Rerun
  \/ \E i \in DOMAIN atts : TransportResolve(i)
  \/ \E i \in DOMAIN atts : TransportReject(i)
  \/ ParseOk
  \/ ParseFail

SpecResult == InitResult /\ [][NextResult]_vars

\* The sequences of at most n elements of S.
SeqsUpTo(S, n) == UNION { [1 .. k -> S] : k \in 0 .. n }

\* The providers arrays a caller can pass: descriptors and other values.
ArrayInputs ==
  { [shape |-> "array", items |-> a] :
      a \in SeqsUpTo(ProviderIds(MaxProviders) \cup {NotAProvider},
                     MaxProviders) }

\* The mappings a caller can pass, as the sequence Object.values gives: each
\* descriptor under at most one key, each with a numeric priority.
MappingInputs ==
  { [shape |-> "mapping", items |-> m] :
      m \in { l \in SeqsUpTo([provider : ProviderIds(MaxProviders),
                               priority : { << v >> : v \in PriorityNumbers }],
                              MaxProviders) :
                \A j, k \in DOMAIN l :
                  l[j].provider = l[k].provider => j = k } }

\* Descriptors with priorities of their own, and a constructor call with a
\* providers array or a mapping, followed by the start of a run.
InitConstruct ==
  /\ \/ props \in ArrayInputs
     \/ props \in MappingInputs
  /\ priority \in [ProviderIds(MaxProviders) -> {Undefined, << 1 >>}]
  /\ responseType = [p \in ProviderIds(MaxProviders) |-> "application/json"]
  /\ responseStatus = [p \in ProviderIds(MaxProviders) |-> 200]
  /\ timeout = 0
  /\ maxAttempts = 0
  /\ maxRetry = 0
  /\ retryOnFail = TRUE
  /\ timeoutPerAttempt = 0
  /\ providers = <<>>
  /\ pc = "new"
  /\ order = <<>>
  /\ atts = <<>>
  /\ cur = 0
  /\ result = <<>>
  /\ runError = "none"
  /\ runs = 0
  /\ changes = 0

NextConstruct ==
  \/ Construct
  \/ Run

SpecConstruct == InitConstruct /\ [][NextConstruct]_vars

\* One run() of coordinators that differ in the options timeout, maxAttempts
\* and maxRetry, with or without a per-attempt timeout.
InitOptions ==
  /\ retryOnFail \in BOOLEAN
  /\ timeoutPerAttempt \in TimeoutChoices
  /\ \E n \in 0 .. MaxProviders :
       ConstructedWith(n, {Undefined}, {"application/json"}, {200},
                       OptionChoices)

NextOptions ==
  \/ Run
  \/ \E i \in DOMAIN atts : TransportResolve(i)
  \/ \E i \in DOMAIN atts : TransportReject(i)
  \/ \E i \in DOMAIN atts : TimerFire(i)
  \/ ParseOk
  \/ ParseFail

SpecOptions == InitOptions /\ [][NextOptions]_vars

\* Repeated runs with or without a per-attempt timeout, the timers of
\* earlier attempts and earlier runs firing whenever they are due.
InitTimers ==
  /\ retryOnFail \in BOOLEAN
  /\ timeoutPerAttempt \in TimeoutChoices
  /\ \E n \in 0 .. MaxProviders :
       ConstructedWith(n, {Undefined}, {"application/json"}, {200}, {0})

NextTimers ==
  \/ Run
  \/ Rerun
  \/ \E i \in DOMAIN atts : TransportResolve(i)
  \/ \E i \in DOMAIN atts : TransportReject(i)
  \/ \E i \in DOMAIN atts : TimerFire(i)
  \/ ParseOk
  \/ ParseFail

SpecTimers == InitTimers /\ [][NextTimers]_vars

\* One run() with or without a per-attempt timeout, in which a timer that is
\* due fires and a body read that has started completes, while a transport
\* call may stay in flight for ever.
InitLive ==
  /\ retryOnFail \in BOOLEAN
  /\ timeoutPerAttempt \in TimeoutChoices
  /\ \E n \in 0 .. MaxProviders :
       ConstructedWith(n, {Undefined}, {"application/json"}, {200}, {0})

NextLive ==
  \/ Run
  \/ \E i \in DOMAIN atts : TransportResolve(i)
  \/ \E i \in DOMAIN atts : TransportReject(i)
  \/ \E i \in DOMAIN atts : TimerFire(i)
  \/ ParseOk
  \/ ParseFail

\* The steps that happen without the endpoint: a setTimeout callback that is
\* due, and the completion of a body read.
TimerStep == \E i \in DOMAIN atts : TimerFire(i)

ParseStep == ParseOk \/ ParseFail

SpecLive ==
  /\ InitLive
  /\ [][NextLive]_vars
  /\ WF_vars(TimerStep)
  /\ WF_vars(ParseStep)

\* The order computed by run() for every stored list and every priority.
InitOrder ==
  /\ retryOnFail = TRUE
  /\ timeoutPerAttempt = 0
  /\ \E n \in 0 .. MaxProviders :
       Constructed(n, PriorityValues, {"application/json"})

NextOrder == Run

SpecOrder == InitOrder /\ [][NextOrder]_vars


\* ------------------------------------------------------------------ claims
\* The providers the current run() has attempted, in the order of the attempts.
Attempted == [j \in 1 .. Len(RunAttempts) |-> RunAttempts[j].prov]

\* The position of x in the sequence s.
Pos(s, x) == CHOOSE i \in 1 .. Len(s) : s[i] = x

IsPrefix(s, t) ==
  /\ Len(s) <= Len(t)
  /\ \A j \in 1 .. Len(s) : s[j] = t[j]

\* C1: the attempts of a run follow the computed order; an attempt that
\* succeeded is the last attempt of its run, every attempt before it failed,
\* run() has resolved with its provider's result, and no provider after it in
\* the order is ever attempted.
C1_FirstSuccessWins ==
  /\ IsPrefix(Attempted, order)
  /\ \A j \in 1 .. Len(RunAttempts) :
       RunAttempts[j].phase = "ok" =>
         /\ j = Len(RunAttempts)
         /\ pc = "resolved"
         /\ result # <<>>
         /\ result[1] = order[j]
         /\ \A k \in 1 .. (j - 1) : RunAttempts[k].phase = "failed"
  /\ pc = "resolved" =>
       /\ Len(RunAttempts) >= 1
       /\ RunAttempts[Len(RunAttempts)].phase = "ok"

\* C1 witness: a run resolved by the second provider of a reordered list of
\* three, the third never attempted.
C1_Witness ==
  /\ pc = "resolved"
  /\ Len(order) = 3
  /\ order # providers
  /\ Len(RunAttempts) = 2
  /\ RunAttempts[1].phase = "failed"
  /\ result[1] = order[2]

\* C2: without retryOnFail a failed attempt is the only attempt of its run,
\* and run() has rejected with exactly the error of that attempt.
C2_FailFast ==
  ~retryOnFail =>
    /\ Len(RunAttempts) <= 1
    /\ \A j \in 1 .. Len(RunAttempts) :
         RunAttempts[j].phase = "failed" =>
           /\ pc = "rejected"
           /\ runError = RunAttempts[j].error
           /\ runError # "No providers available"
    /\ (pc = "rejected" /\ order # <<>>) =>
         /\ Len(RunAttempts) = 1
         /\ RunAttempts[1].phase = "failed"

\* C2 witness: the first of three providers failed its body read and run()
\* rejected with that error, the other two never attempted.
C2_Witness ==
  /\ ~retryOnFail
  /\ pc = "rejected"
  /\ Len(order) = 3
  /\ Len(RunAttempts) = 1
  /\ RunAttempts[1].error = "ParseError"
  /\ runError = "ParseError"

\* C3: with retryOnFail, a rejected run() has rejected with 'No providers
\* available', and by then every stored provider was attempted exactly once,
\* in the computed order, and every attempt failed; the empty list included.
C3_Exhausted ==
  (retryOnFail /\ pc = "rejected") =>
    /\ runError = "No providers available"
    /\ Attempted = order
    /\ \A j \in 1 .. Len(RunAttempts) :
         /\ RunAttempts[j].phase = "failed"
         /\ RunAttempts[j].error # runError
    /\ \A k \in 1 .. Len(providers) :
         Cardinality({j \in 1 .. Len(RunAttempts) :
                        RunAttempts[j].prov = providers[k]}) = 1

\* C3 witness: three providers of a reordered list all failed, for three
\* different reasons.
C3_Witness ==
  /\ retryOnFail
  /\ pc = "rejected"
  /\ Len(RunAttempts) = 3
  /\ order # providers
  /\ runError = "No providers available"
  /\ {RunAttempts[j].error : j \in 1 .. 3} =
       {"TransportError", "Request timeout", "ParseError"}


\* Positional insertion as the specification words it: x put at index at
\* (counted from 0) of r, at the end when at exceeds the length of r, the
\* later elements shifted right.
InsertAt(r, at, x) ==
  LET a == IF at > Len(r) THEN Len(r) ELSE at
  IN  [i \in 1 .. (Len(r) + 1) |->
         IF i <= a THEN r[i] ELSE IF i = a + 1 THEN x ELSE r[i - 1]]

\* The fold of the stored providers: no priority appends, priority P inserts
\* at index P.
RECURSIVE PositionalFold(_, _, _)
PositionalFold(provs, prio, k) ==
  IF k = 0 THEN <<>>
  ELSE LET r == PositionalFold(provs, prio, k - 1)
           p == provs[k]
       IN  IF prio[p] = Undefined
             THEN InsertAt(r, Len(r), p)
             ELSE InsertAt(r, prio[p][1], p)

PrioritiesAtLeastOne ==
  \A p \in DOMAIN priority : priority[p] # Undefined => priority[p][1] >= 1

\* The stored positions i < j whose providers claim the same priority and end
\* up with the later one in front.
CollidingReversed ==
  { ij \in (DOMAIN providers) \X (DOMAIN providers) :
      /\ ij[1] < ij[2]
      /\ priority[providers[ij[1]]] # Undefined
      /\ priority[providers[ij[1]]] = priority[providers[ij[2]]]
      /\ Pos(order, providers[ij[2]]) < Pos(order, providers[ij[1]]) }

\* C4: when every priority that is set is at least 1, the order a run computes
\* is the positional-insertion fold of the stored list.
C4_PositionalInsertion ==
  (pc # "idle" /\ PrioritiesAtLeastOne) =>
    order = PositionalFold(providers, priority, Len(providers))

\* C4 witness: colliding priorities put the later provider in front of the
\* earlier one, and a sparse priority (2, claimed on an empty sequence) has
\* collapsed to the end of what was built then.
C4_Witness ==
  /\ pc # "idle"
  /\ PrioritiesAtLeastOne
  /\ Len(providers) = 3
  /\ priority[providers[1]] = <<2>>
  /\ CollidingReversed # {}
  /\ order[1] = providers[1]

\* C5 (as claimed): a provider of priority 0 precedes, in the computed order,
\* every provider stored before it.
C5_ZeroGoesFirst ==
  pc # "idle" =>
    \A k \in DOMAIN providers :
      priority[providers[k]] = <<0>> =>
        \A j \in 1 .. (k - 1) :
          Pos(order, providers[k]) < Pos(order, providers[j])

\* C6: a provider without priority is last in the sequence built when it is
\* processed, and the providers without priority keep, in the computed order,
\* the relative order of the stored list.
C6_UnprioritizedKeepOrder ==
  pc # "idle" =>
    /\ order = OrderUpTo(providers, priority, Len(providers))
    /\ \A k \in DOMAIN providers :
         priority[providers[k]] = Undefined =>
           LET r == OrderUpTo(providers, priority, k)
           IN  r[Len(r)] = providers[k]
    /\ \A j, k \in DOMAIN providers :
         ( /\ j < k
           /\ priority[providers[j]] = Undefined
           /\ priority[providers[k]] = Undefined ) =>
           Pos(order, providers[j]) < Pos(order, providers[k])

\* C6 witness: two providers without priority with a prioritized provider,
\* stored after both, between them in the computed order.
C6_Witness ==
  /\ pc # "idle"
  /\ Len(providers) = 3
  /\ priority[providers[1]] = Undefined
  /\ priority[providers[2]] = Undefined
  /\ priority[providers[3]] # Undefined
  /\ order = << providers[1], providers[3], providers[2] >>


\* C7 (as claimed): an attempt whose timer expired while its transport call
\* was pending has failed with 'Request timeout' and its signal is aborted.
C7_TimeoutErrorOnExpiry ==
  \A i \in DOMAIN atts :
    atts[i].race = "timer" =>
      /\ atts[i].phase = "failed"
      /\ atts[i].signal = "aborted"
      /\ atts[i].error = "Request timeout"

\* C8 (as claimed): the signal of an attempt whose transport call settled
\* before its timer expired is never aborted.
C8_NoAbortAfterSettle ==
  \A i \in DOMAIN atts :
    atts[i].race = "transport" => atts[i].signal # "aborted"

\* The attempts of the current run() whose transport call is in flight.
InFlight ==
  { i \in DOMAIN atts : atts[i].run = runs /\ atts[i].transport = "inflight" }

\* C9 (as claimed): no two transport calls of one run() are in flight at the
\* same time.
C9_OneInFlight == Cardinality(InFlight) <= 1

\* C9 (amended): run() awaits one attempt at a time and starts an attempt
\* only after the one before it has failed; a transport call in flight that
\* is not the awaited one belongs to an attempt that its timer ended and
\* whose signal has been aborted; without per-attempt timeout there is none.
C9_OneAwaited ==
  /\ \A j \in 2 .. Len(RunAttempts) : RunAttempts[j - 1].phase = "failed"
  /\ \A i \in DOMAIN atts :
       atts[i].phase \in {"transport", "parsing"} => (i = cur /\ pc = "running")
  /\ \A i \in DOMAIN atts :
       (atts[i].transport = "inflight" /\ i # cur) =>
         /\ atts[i].race = "timer"
         /\ atts[i].error = "Request timeout"
         /\ atts[i].signal = "aborted"
  /\ timeoutPerAttempt = 0 => Cardinality(InFlight) <= 1

\* C9 witness: the transport calls of two providers in flight in one run, the
\* first left behind by its timeout with its signal aborted.
C9_Witness ==
  /\ Cardinality(InFlight) = 2
  /\ pc = "running"
  /\ \E i \in InFlight : i # cur /\ atts[i].signal = "aborted"
  /\ atts[cur].phase = "transport"


\* C10: the order is computed when run() starts, from the priorities of that
\* moment, and is the order the run keeps: no step of a run in progress, a
\* priority assignment included, changes it, and every attempt the run starts
\* is the next provider of that order.
C10_OrderFixedPerRun ==
  [][ /\ runs' = runs => order' = order
      /\ runs' # runs => order' = OrderProviders(providers, priority)
      /\ IsPrefix(Attempted', order') ]_vars

\* C10 witness: a first run that has attempted all three providers in the
\* order computed at its start, while a priority assigned during the run
\* makes the order a new run would compute a different one.
C10_Witness ==
  /\ runs = 1
  /\ changes = 1
  /\ Len(RunAttempts) = 3
  /\ Attempted = order
  /\ OrderProviders(providers, priority) # order


\* The state of a run() as a function of the computed order, retryOnFail and
\* the outcomes of the attempts made so far, and of nothing else: the
\* attempts are a prefix of the order, all but the last have failed, and the
\* last one decides whether run() is pending, resolved or rejected.
RunIsFunctionOfOutcomes ==
  runs >= 1 =>
    LET k == Len(RunAttempts)
    IN  /\ IsPrefix(Attempted, order)
        /\ (k = 0) <=> (order = <<>>)
        /\ k = 0 => (pc = "rejected" /\ runError = "No providers available"
                     /\ result = <<>>)
        /\ \A j \in 1 .. (k - 1) : RunAttempts[j].phase = "failed" /\ retryOnFail
        /\ k >= 1 =>
             LET last == RunAttempts[k]
             IN  CASE last.phase \in {"transport", "parsing"} ->
                        pc = "running" /\ result = <<>> /\ runError = "none"
                   [] last.phase = "ok" ->
                        /\ pc = "resolved"
                        /\ result = << last.prov, last.status >>
                        /\ runError = "none"
                   [] last.phase = "failed" ->
                        /\ pc = "rejected"
                        /\ result = <<>>
                        /\ retryOnFail =>
                             (k = Len(order) /\ runError = "No providers available")
                        /\ ~retryOnFail => runError = last.error

\* C11: no step of a run changes the stored list, a priority or an option;
\* a further run() computes the order the previous one had; and the state of
\* every run is the same function of that order, retryOnFail and the
\* attempts' outcomes, so equal outcomes give equal attempts and settlements.
C11_Repeatable ==
  /\ []RunIsFunctionOfOutcomes
  /\ [][ /\ UNCHANGED << providers, priority, responseType, retryOnFail,
                         timeoutPerAttempt, given >>
         /\ (runs' # runs /\ runs >= 1) => order' = order ]_vars

\* C11 witness: a second run() of a coordinator with a reordered list of
\* three has settled after two attempts.
C11_Witness ==
  /\ runs = 2
  /\ pc = "resolved"
  /\ Len(order) = 3
  /\ order # providers
  /\ Len(RunAttempts) = 2


\* The response types #parseResponse has a reading branch for.
Readable ==
  { "application/json", "text/xml", "text/plain",
    "application/x-www-form-urlencoded" }

UnsupportedError(t) ==
  IF t = "application/octet-stream" THEN "Octet stream not supported yet"
  ELSE IF t = "x-application/protobuf" THEN "Protobuf not supported yet"
  ELSE "Invalid response type"

\* C12: an attempt of a provider whose response type is octet-stream,
\* protobuf or unrecognized never reads the body and never succeeds: once its
\* transport call has resolved it has failed with the error of that type; the
\* run treats the failure as any other (next provider with retryOnFail,
\* rejection with that error without).
C12_UnsupportedAlwaysFail ==
  /\ \A i \in DOMAIN atts :
       responseType[atts[i].prov] \notin Readable =>
         /\ atts[i].bodyRead = "none"
         /\ atts[i].phase \in {"transport", "failed"}
         /\ atts[i].transport = "resolved" =>
              /\ atts[i].phase = "failed"
              /\ atts[i].error = UnsupportedError(responseType[atts[i].prov])
  /\ result # <<>> => responseType[result[1]] \in Readable
  /\ RunIsFunctionOfOutcomes

\* C12 witness: an octet-stream, a protobuf and an unrecognized provider have
\* answered and failed in turn, each with its own error, and run() rejected.
C12_Witness ==
  /\ retryOnFail
  /\ pc = "rejected"
  /\ Len(RunAttempts) = 3
  /\ \A j \in 1 .. 3 : RunAttempts[j].transport = "resolved"
  /\ RunAttempts[1].error = "Octet stream not supported yet"
  /\ RunAttempts[2].error = "Protobuf not supported yet"
  /\ RunAttempts[3].error = "Invalid response type"

\* C13: a resolved run() carries the provider and the response status of its
\* last attempt, the one that succeeded; the result is set once per run, when
\* the run resolves, and stays until another run() starts.
C13_ResultOfWinner ==
  /\ [](pc = "resolved" =>
          LET last == RunAttempts[Len(RunAttempts)]
          IN  /\ last.phase = "ok"
              /\ result = << last.prov, responseStatus[last.prov] >>)
  /\ [](pc # "resolved" => result = <<>>)
  /\ [][ result' # result =>
           \/ (runs' # runs /\ result' = <<>>)
           \/ (runs' = runs /\ result = <<>> /\ pc = "running"
               /\ pc' = "resolved") ]_vars

\* C13 witness: the first provider answered 404 and failed, the second
\* answered 200 and succeeded, and the result carries the second's values.
C13_Witness ==
  /\ pc = "resolved"
  /\ Len(RunAttempts) = 2
  /\ RunAttempts[1].status = 404
  /\ RunAttempts[1].phase = "failed"
  /\ result = << RunAttempts[2].prov, 200 >>
  /\ RunAttempts[1].prov # RunAttempts[2].prov


\* C14: construction from a mapping stores the providers in the order of
\* the mapping's values and overwrites the priority of each with the
\* mapping's priority, leaving other descriptors alone; construction from an
\* array of providers stores it and leaves every priority unchanged;
\* construction from an array with an element that is not a provider fails
\* with a TypeError, stores nothing, changes no priority, and nothing can be
\* run afterwards.
C14_ConstructionNormalizes ==
  /\ [][ pc = "new" =>
           LET items == props.items
           IN  /\ props.shape = "mapping" =>
                    /\ pc' = "idle"
                    /\ providers' = [k \in DOMAIN items |-> items[k].provider]
                    /\ \A k \in DOMAIN items :
                         priority'[items[k].provider] = items[k].priority
                    /\ \A p \in DOMAIN priority :
                         (\A k \in DOMAIN items : items[k].provider # p)
                           => priority'[p] = priority[p]
               /\ (props.shape = "array"
                     /\ \A k \in DOMAIN items : items[k] # NotAProvider) =>
                    /\ pc' = "idle"
                    /\ providers' = items
                    /\ priority' = priority
               /\ (props.shape = "array"
                     /\ \E k \in DOMAIN items : items[k] = NotAProvider) =>
                    /\ pc' = "TypeError"
                    /\ providers' = <<>>
                    /\ priority' = priority ]_vars
  /\ [](pc = "TypeError" => (providers = <<>> /\ runs = 0))

\* C14 witness: a coordinator built from a mapping of three providers whose
\* value order is not the descriptors' own, the first of them with a priority
\* no descriptor had before, and a run started on it.
C14_Witness ==
  /\ props.shape = "mapping"
  /\ pc = "running"
  /\ Len(providers) = 3
  /\ providers[1] = 3
  /\ priority[3] = << 0 >>
  /\ priority[1] = << 2 >>
  /\ order[1] # providers[1]


\* The variables a run() writes.
runState == << pc, order, atts, cur, result, runError, runs >>

\* C15: a priority changes only in a step that sets it to a number or clears
\* it, and then only the priority of that provider, to that number or to
\* unset; setting a value that is not a number leaves every priority and the
\* state of the run as they were; no step of a run changes a priority; and a
\* run that starts places a provider without priority behind every provider
\* stored before it.
C15_PriorityChangesOnlyBySetOrClear ==
  [][ /\ \A p \in DOMAIN priority :
           /\ (\E v \in RunPriorityNumbers : SetPriority(p, v)) =>
                \E v \in RunPriorityNumbers :
                  priority' = [priority EXCEPT ![p] = << v >>]
           /\ SetPriorityNonNumber(p) =>
                (priority' = priority /\ runState' = runState)
           /\ RemovePriority(p) =>
                priority' = [priority EXCEPT ![p] = Undefined]
      /\ priority' # priority =>
           \E p \in DOMAIN priority :
             \/ \E v \in RunPriorityNumbers : SetPriority(p, v)
             \/ RemovePriority(p)
      /\ runState' # runState => priority' = priority
      /\ runs' # runs =>
           \A j, k \in DOMAIN providers :
             (j < k /\ priority[providers[k]] = Undefined) =>
               Pos(order', providers[j]) < Pos(order', providers[k]) ]_vars

\* C15 witness: after one priority call, a second run has ordered three
\* providers of which the first has no priority and the other two collide
\* on 1, and has resolved.
C15_Witness ==
  /\ changes = 1
  /\ runs = 2
  /\ pc = "resolved"
  /\ Len(providers) = 3
  /\ priority[1] = Undefined
  /\ priority[2] = << 1 >>
  /\ priority[3] = << 1 >>
  /\ order = << 1, 3, 2 >>


\* C16: whatever the options timeout, maxAttempts and maxRetry are, the
\* attempts made and the settlement of a run are the function of the order,
\* of retryOnFail and of the attempts' outcomes that does not mention them,
\* an attempt has a timer exactly when timeoutPerAttempt is set, and a run
\* makes at most one attempt per stored provider.
C16_OptionsUnused ==
  /\ RunIsFunctionOfOutcomes
  /\ \A i \in DOMAIN atts :
       /\ (atts[i].timer = "none") <=> (timeoutPerAttempt = 0)
       /\ (atts[i].signal = "none") <=> (timeoutPerAttempt = 0)
  /\ Len(RunAttempts) <= Len(providers)

\* C16 witness: with timeout, maxAttempts and maxRetry all set to 1, a run
\* over three providers has made a third attempt after two failures.
C16_Witness ==
  /\ timeout = 1
  /\ maxAttempts = 1
  /\ maxRetry = 1
  /\ Len(providers) = 3
  /\ Len(RunAttempts) = 3
  /\ RunAttempts[1].phase = "failed"
  /\ RunAttempts[2].phase = "failed"
  /\ pc = "running"


\* The signal and the timer an attempt starts with.
FreshSignal(a) ==
  IF timeoutPerAttempt = 0
    THEN a.signal = "none" /\ a.timer = "none"
    ELSE a.signal = "fresh" /\ a.timer = "pending"

\* C17: an attempt starts with a signal and a timer of its own exactly when
\* timeoutPerAttempt is set, and without it no attempt ever has either; the
\* signal of an attempt changes only in the step in which the timer of that
\* same attempt fires, which aborts it and no other, whether or not the
\* attempt has ended and whichever run it belongs to; the start of another
\* run leaves the signals of the attempts still live as they are.
C17_SignalPerAttempt ==
  /\ [](\A i \in DOMAIN atts :
          /\ timeoutPerAttempt = 0 =>
               (atts[i].signal = "none" /\ atts[i].timer = "none")
          /\ timeoutPerAttempt # 0 =>
               /\ atts[i].signal \in {"fresh", "aborted"}
               /\ (atts[i].signal = "aborted") <=> (atts[i].timer = "fired"))
  /\ [][ /\ runs' = runs =>
              /\ Len(atts') \in {Len(atts), Len(atts) + 1}
              /\ \A i \in DOMAIN atts :
                   atts'[i].signal # atts[i].signal =>
                     /\ atts[i].timer = "pending"
                     /\ atts'[i].timer = "fired"
                     /\ atts[i].signal = "fresh"
                     /\ atts'[i].signal = "aborted"
                     /\ \A j \in DOMAIN atts \ {i} :
                          atts'[j].signal = atts[j].signal
              /\ Len(atts') = Len(atts) + 1 => FreshSignal(atts'[Len(atts')])
         /\ runs' # runs =>
              /\ SelectSeq(atts', LAMBDA a : a.run # runs') = LiveAttempts
              /\ \A i \in DOMAIN atts' :
                   atts'[i].run = runs' => FreshSignal(atts'[i]) ]_vars

\* C17 witness: the timer of an attempt of the first run, which the
\* transport had ended, has fired during the second run and aborted its
\* signal, while the signal of the second run's awaited attempt is untouched.
C17_Witness ==
  /\ runs = 2
  /\ cur # 0
  /\ atts[cur].phase = "transport"
  /\ atts[cur].signal = "fresh"
  /\ \E i \in DOMAIN atts :
       /\ atts[i].run = 1
       /\ atts[i].race = "transport"
       /\ atts[i].signal = "aborted"
  /\ \E j \in DOMAIN atts :
       atts[j].run = 1 /\ atts[j].timer = "pending"


\* C18: the order a run has computed is as long as the stored list and holds
\* every stored provider at exactly one position, whatever the priorities are.
C18_OrderIsPermutation ==
  runs >= 1 =>
    /\ Len(order) = Len(providers)
    /\ \A k \in DOMAIN providers :
         Cardinality({ j \in DOMAIN order : order[j] = providers[k] }) = 1

\* C18 witness: three providers, the first with a priority beyond the end of
\* the list built so far, the other two colliding on a negative priority,
\* ordered by a run.
C18_Witness ==
  /\ runs = 1
  /\ Len(providers) = 3
  /\ priority[1] = << MaxPriority >>
  /\ priority[2] = << -1 >>
  /\ priority[3] = << -1 >>
  /\ order = << 2, 3, 1 >>


\* The awaited attempt is the k-th and its transport phase has not ended.
AwaitingTransport(k) == cur = k /\ atts[k].phase = "transport"

\* C19: with timeoutPerAttempt set, the transport phase of every attempt
\* ends and a started run() settles, although no transport call need ever
\* settle, and a run attempts each provider at most once; without it, while
\* the awaited transport call is in flight no timer or parse step is
\* possible, so run() can stay pending for ever, and only the settling of
\* that call lets the run go on to a later provider.
C19_TimeoutBoundsTheWait ==
  /\ \A k \in 1 .. MaxProviders :
       (timeoutPerAttempt # 0 /\ AwaitingTransport(k))
         ~> (cur # k \/ atts[k].phase # "transport")
  /\ (timeoutPerAttempt # 0 /\ pc = "running")
       ~> (pc \in {"resolved", "rejected"})
  /\ [](/\ Len(RunAttempts) <= Len(providers)
        /\ \A j, k \in DOMAIN RunAttempts :
             RunAttempts[j].prov = RunAttempts[k].prov => j = k)
  /\ []((timeoutPerAttempt = 0 /\ cur # 0 /\ atts[cur].phase = "transport") =>
          /\ pc = "running"
          /\ cur = Len(atts)
          /\ atts[cur].transport = "inflight"
          /\ ~ENABLED << TimerStep \/ ParseStep >>_vars)
  /\ [][ (timeoutPerAttempt = 0 /\ cur # 0 /\ atts[cur].phase = "transport"
            /\ atts'[cur].transport = "inflight")
           => (pc' = "running" /\ cur' = cur /\ atts' = atts) ]_vars

\* C19 witness: with a timeout set, run() has rejected after one attempt per
\* provider, none of whose transport calls has settled.
C19_Witness ==
  /\ timeoutPerAttempt # 0
  /\ pc = "rejected"
  /\ Len(providers) = 3
  /\ Len(RunAttempts) = 3
  /\ \A k \in 1 .. 3 :
       RunAttempts[k].transport = "inflight" /\ RunAttempts[k].race = "timer"

\* C19 witness of the other half: without a timeout, the second provider's
\* transport call is in flight and nothing but its settling can happen.
C19_WitnessPending ==
  /\ timeoutPerAttempt = 0
  /\ AwaitingTransport(2)
  /\ Len(providers) = 3
  /\ ~ENABLED << TimerStep \/ ParseStep >>_vars

====
